---- MODULE Spec2Model ----
(***************************************************************************)
(* A model of gemfileparser (src/gemfileparser/__init__.py): the class     *)
(* GemfileParser, its pattern table, the process-wide group state and the  *)
(* two parsing dialects.  Python strings are TLA+ strings; a pattern of    *)
(* the table is a small regular-expression tree that is matched the way    *)
(* Python's backtracking re.match matches it.                              *)
(***************************************************************************)
EXTENDS Integers, Sequences, FiniteSets, TLC

\* Python's None: a value no capture can equal, since no pattern of the
\* table matches a newline character.
None == "None\n"

-----------------------------------------------------------------------------
(* String helpers (str methods used by the source).                        *)

Char(s, i) == SubSeq(s, i, i)

StartsWith(s, p) == Len(s) >= Len(p) /\ SubSeq(s, 1, Len(p)) = p

EndsWith(s, p) == Len(s) >= Len(p) /\ SubSeq(s, Len(s) - Len(p) + 1, Len(s)) = p

MinOf(S) == CHOOSE x \in S : \A y \in S : x <= y

MaxOf(S) == CHOOSE x \in S : \A y \in S : x >= y

\* str.strip() removes these from both ends.
Whitespace == {" ", "\t", "\n", "\r", "\f"}

Strip(s) ==
    LET keep == {j \in 1..Len(s) : Char(s, j) \notin Whitespace}
    IN  IF keep = {} THEN "" ELSE SubSeq(s, MinOf(keep), MaxOf(keep))

-----------------------------------------------------------------------------
(* Regular expressions.  A pattern is a tree of nodes; Ends(r, s, i) is    *)
(* the set of pairs <<rank, offset>>: the offsets at which a match of r    *)
(* that starts at offset i of s can end, ranked in the order in which a    *)
(* backtracking matcher tries them (greedy: longest first, lazy: shortest  *)
(* first, alternation: left first).  An offset counts the characters       *)
(* consumed so far.  An offset is kept at its best rank only: the          *)
(* continuation after it is the same whichever way it was reached.         *)

Lit(str) == [t |-> "lit", s |-> str]
Cls(set) == [t |-> "cls", c |-> set, neg |-> FALSE]
Dot == [t |-> "cls", c |-> {"\n"}, neg |-> TRUE]
Star(node) == [t |-> "rep", r |-> node, min |-> 0, greedy |-> TRUE]
Plus(node) == [t |-> "rep", r |-> node, min |-> 1, greedy |-> TRUE]
LazyStar(node) == [t |-> "rep", r |-> node, min |-> 0, greedy |-> FALSE]
PlusGroup(node) == [t |-> "plusgrp", r |-> node]
Opt(node) == [t |-> "opt", r |-> node]
Alt(x, y) == [t |-> "alt", a |-> x, b |-> y]
Cat(nodes) == [t |-> "cat", rs |-> nodes]

InClass(r, ch) == IF r.neg THEN ch \notin r.c ELSE ch \in r.c

\* Length of the longest run of characters of class r in s after offset i.
Run(r, s, i) ==
    LET bad == {j \in (i + 1)..Len(s) : ~InClass(r, Char(s, j))}
    IN  IF bad = {} THEN Len(s) - i ELSE MinOf(bad) - 1 - i

\* Ranked offsets, each offset at its best rank, ranks renumbered from 0.
Norm(P) ==
    LET best == {p \in P : \A q \in P : q[2] = p[2] => p[1] <= q[1]}
    IN  {<<Cardinality({q \in best : q[1] < p[1]}), p[2]>> : p \in best}

\* The alternatives of A first, then those of B.
Then(A, B) == Norm(A \cup {<<Cardinality(A) + q[1], q[2]>> : q \in B})

RECURSIVE Ends(_, _, _)

\* r matched from each of the ranked offsets A; the rank of the start
\* decides first, the rank of r's own alternative second.
EndsFrom(r, s, A) ==
    Norm(UNION {{<<x[1] * (Len(s) + 1) + y[1], y[2]>> : y \in Ends(r, s, x[2])} : x \in A})

Ends(r, s, i) ==
    CASE r.t = "lit" ->
            IF i + Len(r.s) <= Len(s) /\ SubSeq(s, i + 1, i + Len(r.s)) = r.s
            THEN {<<0, i + Len(r.s)>>} ELSE {}
      [] r.t = "cls" ->
            IF i < Len(s) /\ InClass(r, Char(s, i + 1)) THEN {<<0, i + 1>>} ELSE {}
      [] r.t = "rep" ->
            LET n == Run(r.r, s, i)
            IN  IF r.greedy THEN {<<k, i + n - k>> : k \in 0..(n - r.min)}
                ELSE {<<k, i + r.min + k>> : k \in 0..(n - r.min)}
      [] r.t = "plusgrp" ->
            LET once == {y \in Ends(r.r, s, i) : y[2] > i}
            IN  Then(EndsFrom(r, s, once), once)
      [] r.t = "opt" -> Then(Ends(r.r, s, i), {<<0, i>>})
      [] r.t = "alt" -> Then(Ends(r.a, s, i), Ends(r.b, s, i))
      [] r.t = "cat" ->
            IF r.rs = <<>> THEN {<<0, i>>}
            ELSE EndsFrom(Cat(Tail(r.rs)), s, Ends(Head(r.rs), s, i))

\* A pattern with one named group is [pre, grp, post]: the text before the
\* group, the group and the text after it.  Capture is what
\* re.match(pattern, s).group(name) returns, None when there is no match:
\* the first (pre, grp) split, in backtracking order, after which post
\* matches.
Pattern(p, g, q) == [pre |-> p, grp |-> g, post |-> q]

Capture(pat, s) ==
    LET splits == UNION {{<<x[1] * (Len(s) + 1) + y[1], x[2], y[2]>> :
                             y \in {z \in Ends(pat.grp, s, x[2]) :
                                      Ends(pat.post, s, z[2]) # {}}} :
                         x \in Ends(pat.pre, s, 0)}
    IN  IF splits = {} THEN None
        ELSE LET first == CHOOSE p \in splits : \A q \in splits : p[1] <= q[1]
             IN  SubSeq(s, first[2] + 1, first[3])

-----------------------------------------------------------------------------
(* The pattern table.                                                      *)

Lower == {"a", "b", "c", "d", "e", "f", "g", "h", "i", "j", "k", "l", "m",
          "n", "o", "p", "q", "r", "s", "t", "u", "v", "w", "x", "y", "z"}
Upper == {"A", "B", "C", "D", "E", "F", "G", "H", "I", "J", "K", "L", "M",
          "N", "O", "P", "Q", "R", "S", "T", "U", "V", "W", "X", "Y", "Z"}
Digit == {"0", "1", "2", "3", "4", "5", "6", "7", "8", "9"}
Quote == {"'", "\""}

\* [a-zA-Z:\/\.-]
TokenChars == Lower \cup Upper \cup {":", "/", ".", "-"}
\* [a-zA-Z:\/\.-\\]  (the range from "." to "\")
SourceChars == Lower \cup Upper \cup Digit \cup
               {":", "/", ".", ";", "<", "=", ">", "?", "@", "[", "\\"}
\* [a-zA-Z:\/\.-0-9]  (the range from "." to "0", then "-" and "9")
GithubChars == Lower \cup Upper \cup {":", "/", ".", "0", "-", "9"}
\* [>|<|=|~>|\d]
OperatorChars == {">", "|", "<", "=", "~"} \cup Digit
\* [0-9\.\w]
VersionChars == Digit \cup {"."} \cup Lower \cup Upper \cup {"_"}

\* (:|[ ]?=>)
KeySep == Alt(Lit(":"), Cat(<<Opt(Lit(" ")), Lit("=>")>>))

\* .*key(:|[ ]?=>)[ ]*
Key(word) == Cat(<<Star(Dot), Lit(word), KeySep, Star(Cls({" "}))>>)

\* \[.*\]
Bracketed == Cat(<<Lit("["), Star(Dot), Lit("]")>>)

\* Clause without the spaces between operator and version.
ClauseNoSpace == Cat(<<Plus(Cls(OperatorChars)), Plus(Cls(VersionChars)),
                       Star(Cls({" ", ","}))>>)

\* ([>|<|=|~>|\d]+[ ]*[0-9\.\w]+[ ,]*)
Clause == Cat(<<Plus(Cls(OperatorChars)), Star(Cls({" "})),
                Plus(Cls(VersionChars)), Star(Cls({" ", ","}))>>)

\* The keys of gemfile_regexes in insertion order (an OrderedDict).
Criteria == <<"name", "source", "git", "platform", "platforms", "path",
              "github", "branch", "autorequire", "group", "groups",
              "requirement">>

gemfile_regexes ==
    [name |-> Pattern(Cat(<<Lit("gem "), Cls(Quote)>>), LazyStar(Dot), Cls(Quote)),
     source |-> Pattern(Cat(<<Key("source"), Cls(Quote)>>),
                        Plus(Cls(SourceChars)),
                        Cat(<<Cls(Quote), Star(Dot)>>)),
     git |-> Pattern(Key("git"), Plus(Cls(TokenChars)), Star(Dot)),
     platform |-> Pattern(Key("platform"), Plus(Cls(TokenChars)), Star(Dot)),
     platforms |-> Pattern(Key("platforms"), Bracketed,
                           Cat(<<Opt(Lit(",")), Star(Dot)>>)),
     path |-> Pattern(Key("path"),
                      Cat(<<Plus(Dot), Cls({"'", "\"", ")"})>>),
                      Star(Dot)),
     github |-> Pattern(Cat(<<Key("github"), Cls(Quote)>>),
                        Plus(Cls(GithubChars)),
                        Cat(<<Cls(Quote), Star(Dot)>>)),
     branch |-> Pattern(Key("branch"), Plus(Cls(TokenChars)), Star(Dot)),
     autorequire |-> Pattern(Key("require"), Plus(Cls(TokenChars)), Star(Dot)),
     group |-> Pattern(Key("group"), Plus(Cls(TokenChars)), Star(Dot)),
     groups |-> Pattern(Key("groups"), Bracketed, Cat(<<Lit(","), Star(Dot)>>)),
     requirement |-> Pattern(Cat(<<Lit("gem"), Cls({" "}), Cls(Quote),
                                   LazyStar(Dot), Cls(Quote)>>),
                             PlusGroup(Clause),
                             Star(Dot))]

\* .*group[ ]?(:|[ ]?=>)[ ]*(?P<groupblock>.*?) do
group_block_regex ==
    Pattern(Cat(<<Star(Dot), Lit("group"), Opt(Lit(" ")), KeySep, Star(Cls({" "}))>>),
            LazyStar(Dot),
            Lit(" do"))

\* .*add_development_dependency (?P<line>.*)
add_dvtdep_regex ==
    Pattern(Cat(<<Star(Dot), Lit("add_development_dependency ")>>), Star(Dot), Cat(<<>>))

\* .*add_runtime_dependency (?P<line>.*)
add_rundep_regex ==
    Pattern(Cat(<<Star(Dot), Lit("add_runtime_dependency ")>>), Star(Dot), Cat(<<>>))

-----------------------------------------------------------------------------
(* The file system the parser reads: absolute path |-> readlines().        *)

Cwd == "/w"

Files ==
    ("/w/Gemfile" :> <<"source \"https://rubygems.org\"\n",
                       "gem \"foo\", \">= 1.0\"\n",
                       "gemspec\n",
                       "gem \"bar\", path: \"../bar\"\n">>)
    @@ ("/w/foo.gemspec" :> <<"Gem::Specification.new do |s|\n",
                              "  s.add_runtime_dependency \"rake\"\n",
                              "  s.add_development_dependency \"rspec\", \"~> 3.0\"\n",
                              "end\n">>)
    @@ ("/w/app/Gemfile" :> <<"group :test do\n",
                              "  gem \"rspec\"\n",
                              "  platforms :ruby do\n",
                              "    gem \"sqlite3\"\n",
                              "  end\n",
                              "  gem \"faker\"\n",
                              "end\n",
                              "gemspec\n",
                              "gem \"rails\", \"4.2.0\"\n">>)
    @@ ("/w/app/app.gemspec" :> <<"spec.add_development_dependency \"rspec\", \"~> 3.0\"\n",
                                  "spec.add_development_dependency \"pry\", group: :debug\n",
                                  "spec.add_runtime_dependency \"rake\"  # build\n">>)
    @@ ("/w/none/Gemfile" :> <<"gem \"x\", group: :ci\n",
                               "group :assets do\n",
                               "gemspec\n",
                               "gem foo\n">>)
    @@ ("/w/none/Blank" :> <<>>)
    @@ ("/w/multi/Gemfile" :> <<"gemspec\n",
                                "gem \"foo\", \">= 1.0\", \"< 2.0\"\n">>)
    @@ ("/w/multi/a.gemspec" :> <<"s.add_runtime_dependency \"a\"\n">>)
    @@ ("/w/multi/b.gemspec" :> <<"s.add_runtime_dependency \"b\"\n">>)
    @@ ("/w/bare/Gemfile" :> <<"# documentation\n",
                               "group :docs do\n",
                               "  gemspec\n",
                               "  gem \"yard\"\n",
                               "  group \"test\" do\n",
                               "  gem \"pry\", group: :debug\n",
                               "  gem \"minitest\"\n",
                               "end\n">>)
    @@ ("/w/bare/bare.gemspec" :> <<"Gem::Specification.new do |s|\n",
                                    "end\n">>)

\* The paths parsers are constructed on, the applications they are
\* constructed for, and the arguments of the direct calls.
Parsers == {"p1", "p2"}
FilePaths == [p1 |-> {"Gemfile", "foo.gemspec", "app/Gemfile", "/w/app/Gemfile",
                      "none/Gemfile", "none/Blank", "multi/Gemfile",
                      "/w/bare/Gemfile"},
              p2 |-> {"foo.gemspec", "none/Gemfile"}]
AppNames == [p1 |-> "", p2 |-> "myapp"]
GemfileArgs == {"", "none/Gemfile"}
GemspecArgs == {"", "foo.gemspec"}
LineArgs == {"gem \"foo\", \">= 1.0\""}

\* The number of calls a caller makes on the parsers.
MaxCalls == 2

\* The lines a caller hands to preprocess directly: every string of at most
\* MaxLen characters of the alphabet.
MaxLen == 3

Alphabet == {" ", "\t", "\n", "#", "a"}

RECURSIVE Lines(_)
Lines(n) ==
    IF n = 0 THEN {""}
    ELSE LET shorter == Lines(n - 1)
         IN  shorter \cup {s \o c : s \in shorter, c \in Alphabet}

-----------------------------------------------------------------------------
(* os.path and glob.                                                       *)

IndicesOf(s, ch) == {j \in 1..Len(s) : Char(s, j) = ch}

\* posixpath.dirname
dirname(p) ==
    LET i == IF IndicesOf(p, "/") = {} THEN 0 ELSE MaxOf(IndicesOf(p, "/"))
        head == SubSeq(p, 1, i)
        others == {j \in 1..i : Char(head, j) # "/"}
    IN  IF others = {} THEN head ELSE SubSeq(head, 1, MaxOf(others))

\* posixpath.basename
basename(p) ==
    LET i == IF IndicesOf(p, "/") = {} THEN 0 ELSE MaxOf(IndicesOf(p, "/"))
    IN  SubSeq(p, i + 1, Len(p))

\* posixpath.join of two components
join(a, b) ==
    IF StartsWith(b, "/") THEN b
    ELSE IF a = "" \/ EndsWith(a, "/") THEN a \o b
    ELSE a \o "/" \o b

\* The file a path names: a relative path is relative to the working
\* directory of the process.
Resolve(path) == IF StartsWith(path, "/") THEN path ELSE join(Cwd, path)

Exists(path) == Resolve(path) \in DOMAIN Files

\* open(path).readlines(), for a path that exists
readlines(path) == Files[Resolve(path)]

\* glob.glob(pathname) for a pathname whose last component is "*" followed
\* by a suffix: the directory part is kept as given in every result, and a
\* name starting with "." is never matched by "*".  The result is a list in
\* directory order; the source uses its length and, when the length is 1,
\* its only element.
glob(pathname) ==
    LET dir == dirname(pathname)
        suffix == SubSeq(basename(pathname), 2, Len(basename(pathname)))
        where == IF dir = "" THEN Cwd ELSE Resolve(dir)
        names == {basename(f) : f \in {g \in DOMAIN Files : dirname(g) = where}}
    IN  {join(dir, n) : n \in {m \in names : EndsWith(m, suffix) /\ ~StartsWith(m, ".")}}

-----------------------------------------------------------------------------
(* GemfileParser.                                                          *)

\* Dependency.__init__, with the attributes parse_line may add by setattr
\* (git, path, github, branch) absent, written None.
Dependency ==
    [name |-> None, requirement |-> <<>>, autorequire |-> None,
     source |-> None, parent |-> <<>>, group |-> None, platform |-> None,
     platforms |-> <<>>, groups |-> <<>>,
     git |-> None, path |-> None, github |-> None, branch |-> None]

\* The five keys of self.dependencies after __init__.
EmptyDependencies ==
    [k \in {"development", "runtime", "test", "production", "metrics"} |-> <<>>]

\* preprocess stripping before the comment is cut off.
preprocessStripFirst(line) ==
    LET stripped == Strip(line)
    IN  IF IndicesOf(stripped, "#") # {}
        THEN SubSeq(stripped, 1, MinOf(IndicesOf(stripped, "#")) - 1)
        ELSE stripped

preprocess(line) ==
    LET cut == IF IndicesOf(line, "#") # {}
               THEN SubSeq(line, 1, MinOf(IndicesOf(line, "#")) - 1)
               ELSE line
    IN  Strip(cut)

\* The loop of parse_line over the pattern table, from criteria number k on.
RECURSIVE ApplyCriteria(_, _, _)
ApplyCriteria(dep, line, k) ==
    IF k > Len(Criteria) THEN dep
    ELSE LET criteria == Criteria[k]
             match == Capture(gemfile_regexes[criteria], line)
             next == IF match = None THEN dep
                     ELSE IF criteria = "requirement"
                          THEN [dep EXCEPT !.requirement = Append(@, match)]
                          ELSE [dep EXCEPT ![criteria] = match]
         IN  ApplyCriteria(next, line, k + 1)

\* parse_line starting every Dependency in the runtime group.
BuildDepRuntime(line, group, app) ==
    ApplyCriteria([Dependency EXCEPT !.group = "runtime",
                                     !.parent = IF app = "" THEN <<>> ELSE <<app>>],
                  line, 1)

\* The Dependency parse_line builds from a line.
BuildDep(line, group, app) ==
    ApplyCriteria([Dependency EXCEPT !.group = group,
                                     !.parent = IF app = "" THEN <<>> ELSE <<app>>],
                  line, 1)

\* Filing that starts a new dict for every Dependency.
FileDepReplacing(deps, dep) == (dep.group :> <<dep>>)

\* Filing that puts the Dependency at the front of the sequence.
FileDepPrepending(deps, dep) ==
    IF dep.group \in DOMAIN deps
    THEN [deps EXCEPT ![dep.group] = <<dep>> \o @]
    ELSE deps @@ (dep.group :> <<dep>>)

\* The end of parse_line: the Dependency is filed under its group.
FileDep(deps, dep) ==
    IF dep.group \in DOMAIN deps
    THEN [deps EXCEPT ![dep.group] = Append(@, dep)]
    ELSE deps @@ (dep.group :> <<dep>>)

\* The branch of the loop of parse_gemfile a preprocessed line takes.
Kind(line) ==
    IF line = "" \/ StartsWith(line, "source") THEN "skip"
    ELSE IF StartsWith(line, "group") THEN "group"
    ELSE IF StartsWith(line, "end") THEN "end"
    ELSE IF StartsWith(line, "gemspec") THEN "gemspec"
    ELSE IF StartsWith(line, "gem ") THEN "gem"
    ELSE "other"

-----------------------------------------------------------------------------
(* State.                                                                  *)

VARIABLES
    global_group,   \* the class attribute GemfileParser.global_group
    filepath,       \* self.filepath of every parser
    appname,        \* self.appname
    gemspec,        \* self.gemspec
    contents,       \* self.contents
    dependencies,   \* self.dependencies: the one dict object of every parser
    stack,          \* the active parse_gemfile / parse_gemspec calls, innermost last
    cur,            \* the locals of the loop iteration or parse_line call done last
    exc,            \* the exception the last call raised, None if none
    returned,       \* the parsers whose dict has been returned to a caller
    calls           \* the number of calls made so far

vars == <<global_group, filepath, appname, gemspec, contents, dependencies,
          stack, cur, exc, returned, calls>>

object == <<filepath, appname, gemspec, contents>>

\* __init__, for every parser, on a file that exists.
Init ==
    /\ global_group = "runtime"
    /\ filepath \in [Parsers -> UNION {FilePaths[p] : p \in Parsers}]
    /\ \A p \in Parsers : filepath[p] \in FilePaths[p]
    /\ appname = [p \in Parsers |-> AppNames[p]]
    /\ gemspec = [p \in Parsers |-> EndsWith(filepath[p], "gemspec")]
    /\ contents = [p \in Parsers |-> readlines(filepath[p])]
    /\ dependencies = [p \in Parsers |-> EmptyDependencies]
    /\ stack = <<>>
    /\ cur = [self |-> None, fn |-> None, line |-> None, built |-> FALSE,
              dep |-> Dependency]
    /\ exc = None
    /\ returned = {}
    /\ calls = 0

Top == stack[Len(stack)]

\* The preprocessed line the innermost loop is about to classify.
Line == preprocess(Top.contents[Top.i])

InLoop(fn) == /\ stack # <<>>
              /\ Top.fn = fn
              /\ Top.i <= Len(Top.contents)

\* The stack once the innermost loop has moved to its next line.
Advance == [stack EXCEPT ![Len(stack)].i = @ + 1]

Frame(self, fn, lines) == [self |-> self, fn |-> fn, contents |-> lines, i |-> 1]

Iteration(self, fn, line) ==
    [self |-> self, fn |-> fn, line |-> line, built |-> FALSE, dep |-> Dependency]

\* A caller may call when no call is active.
Idle == stack = <<>> /\ calls < MaxCalls

\* The start of parse_gemfile(path) or parse_gemspec(path) called from
\* outside: the lines are self.contents, or read from path.
Enter(self, fn, path) ==
    /\ Idle
    /\ calls' = calls + 1
    /\ IF path = "" \/ Exists(path)
       THEN /\ stack' = <<Frame(self, fn, IF path = "" THEN contents[self]
                                          ELSE readlines(path))>>
            /\ exc' = None
       ELSE /\ stack' = stack
            /\ exc' = "FileNotFoundError"
    /\ UNCHANGED <<global_group, object, dependencies, cur, returned>>

parse_gemfile(self, path) == Enter(self, "parse_gemfile", path)

parse_gemspec(self, path) == Enter(self, "parse_gemspec", path)

parse(self) ==
    IF gemspec[self] THEN parse_gemspec(self, "") ELSE parse_gemfile(self, "")

\* parse_line called from outside.
parse_line(self, line) ==
    /\ Idle
    /\ calls' = calls + 1
    /\ LET dep == BuildDep(line, global_group, appname[self])
       IN  /\ dependencies' = [dependencies EXCEPT ![self] = FileDep(@, dep)]
           /\ cur' = [self |-> self, fn |-> "parse_line", line |-> line,
                      built |-> TRUE, dep |-> dep]
    /\ exc' = None
    /\ UNCHANGED <<global_group, object, stack, returned>>

\* parse_gemfile: an empty line, a source line or a line of no known kind.
GemfileSkip ==
    /\ InLoop("parse_gemfile")
    /\ Kind(Line) \in {"skip", "other"}
    /\ stack' = Advance
    /\ cur' = Iteration(Top.self, "parse_gemfile", Line)
    /\ UNCHANGED <<global_group, object, dependencies, exc, returned, calls>>

\* parse_gemfile: a line starting with group.
GemfileGroup ==
    /\ InLoop("parse_gemfile")
    /\ Kind(Line) = "group"
    /\ LET match == Capture(group_block_regex, Line)
       IN  global_group' = IF match # None THEN match ELSE global_group
    /\ stack' = Advance
    /\ cur' = Iteration(Top.self, "parse_gemfile", Line)
    /\ UNCHANGED <<object, dependencies, exc, returned, calls>>

\* parse_gemfile: a line starting with end.
GemfileEnd ==
    /\ InLoop("parse_gemfile")
    /\ Kind(Line) = "end"
    /\ global_group' = "runtime"
    /\ stack' = Advance
    /\ cur' = Iteration(Top.self, "parse_gemfile", Line)
    /\ UNCHANGED <<object, dependencies, exc, returned, calls>>

\* The first of several gemspec files taken.
ResolvedAny(gemspec_list) == ~(Cardinality(gemspec_list) < 1)

\* Neither "Multiple gemspec files found" nor "No gemspec file found".
Resolved(gemspec_list) ==
    ~(Cardinality(gemspec_list) > 1) /\ ~(Cardinality(gemspec_list) < 1)

\* parse_gemfile: a line starting with gemspec.  With one gemspec file
\* found, parse_gemspec is called on the joined path; open() raises when no
\* file has that path, and the exception ends the call made from outside.
GemfileGemspec ==
    /\ InLoop("parse_gemfile")
    /\ Kind(Line) = "gemspec"
    /\ LET self == Top.self
           gemfiledir == dirname(filepath[self])
           gemspec_list == glob(join(gemfiledir, "*.gemspec"))
           gemspec_file == CHOOSE f \in gemspec_list : TRUE
           path == join(gemfiledir, gemspec_file)
       IN  IF ~Resolved(gemspec_list)
           THEN /\ stack' = Advance
                /\ exc' = exc
           ELSE IF Exists(path)
           THEN /\ stack' = Append(Advance, Frame(self, "parse_gemspec", readlines(path)))
                /\ exc' = exc
           ELSE /\ stack' = <<>>
                /\ exc' = "FileNotFoundError"
    /\ cur' = Iteration(Top.self, "parse_gemfile", Line)
    /\ UNCHANGED <<global_group, object, dependencies, returned, calls>>

\* A gem line whose group becomes the Group State.
GemfileGemSettingState ==
    /\ InLoop("parse_gemfile")
    /\ Kind(Line) = "gem"
    /\ LET dep == BuildDep(Line, global_group, appname[Top.self])
       IN  /\ dependencies' = [dependencies EXCEPT ![Top.self] = FileDep(@, dep)]
           /\ cur' = [self |-> Top.self, fn |-> "parse_gemfile", line |-> Line,
                      built |-> TRUE, dep |-> dep]
           /\ global_group' = dep.group
    /\ stack' = Advance
    /\ UNCHANGED <<object, exc, returned, calls>>

\* parse_gemfile: a line starting with "gem ".
GemfileGem ==
    /\ InLoop("parse_gemfile")
    /\ Kind(Line) = "gem"
    /\ LET dep == BuildDep(Line, global_group, appname[Top.self])
       IN  /\ dependencies' = [dependencies EXCEPT ![Top.self] = FileDep(@, dep)]
           /\ cur' = [self |-> Top.self, fn |-> "parse_gemfile", line |-> Line,
                      built |-> TRUE, dep |-> dep]
    /\ stack' = Advance
    /\ UNCHANGED <<global_group, object, exc, returned, calls>>

\* A directive line that leaves the Group State as it found it.
GemspecDirectiveKeepingState ==
    /\ InLoop("parse_gemspec")
    /\ LET dvt == Capture(add_dvtdep_regex, Line)
           run == Capture(add_rundep_regex, Line)
           match == IF dvt # None THEN dvt ELSE run
           group == IF dvt # None THEN "development" ELSE "runtime"
           dep == BuildDep(match, group, appname[Top.self])
       IN  /\ match # None
           /\ dependencies' = [dependencies EXCEPT ![Top.self] = FileDep(@, dep)]
           /\ cur' = [self |-> Top.self, fn |-> "parse_gemspec", line |-> Line,
                      built |-> TRUE, dep |-> dep]
    /\ stack' = Advance
    /\ UNCHANGED <<global_group, object, exc, returned, calls>>

\* parse_gemspec: a line matching one of the two directives.
GemspecDirective ==
    /\ InLoop("parse_gemspec")
    /\ LET dvt == Capture(add_dvtdep_regex, Line)
           run == Capture(add_rundep_regex, Line)
           match == IF dvt # None THEN dvt ELSE run
           group == IF dvt # None THEN "development" ELSE "runtime"
           dep == BuildDep(match, group, appname[Top.self])
       IN  /\ match # None
           /\ global_group' = group
           /\ dependencies' = [dependencies EXCEPT ![Top.self] = FileDep(@, dep)]
           /\ cur' = [self |-> Top.self, fn |-> "parse_gemspec", line |-> Line,
                      built |-> TRUE, dep |-> dep]
    /\ stack' = Advance
    /\ UNCHANGED <<object, exc, returned, calls>>

\* parse_gemspec: a line matching neither directive.
GemspecSkip ==
    /\ InLoop("parse_gemspec")
    /\ Capture(add_dvtdep_regex, Line) = None
    /\ Capture(add_rundep_regex, Line) = None
    /\ stack' = Advance
    /\ cur' = Iteration(Top.self, "parse_gemspec", Line)
    /\ UNCHANGED <<global_group, object, dependencies, exc, returned, calls>>

\* return self.dependencies: to parse_gemfile, which drops it, or to the
\* caller outside, who then holds the dict of the parser.
Return ==
    /\ stack # <<>>
    /\ Top.i > Len(Top.contents)
    /\ stack' = SubSeq(stack, 1, Len(stack) - 1)
    /\ returned' = IF Len(stack) = 1 THEN returned \cup {Top.self} ELSE returned
    /\ UNCHANGED <<global_group, object, dependencies, cur, exc, calls>>

Next ==
    \/ \E self \in Parsers : parse(self)
    \/ \E self \in Parsers, path \in GemfileArgs : parse_gemfile(self, path)
    \/ \E self \in Parsers, path \in GemspecArgs : parse_gemspec(self, path)
    \/ \E self \in Parsers, line \in LineArgs : parse_line(self, line)
    \/ GemfileSkip
    \/ GemfileGroup
    \/ GemfileEnd
    \/ GemfileGemspec
    \/ GemfileGem
    \/ GemspecDirective
    \/ GemspecSkip
    \/ Return

Spec == Init /\ [][Next]_vars

-----------------------------------------------------------------------------
(* The static method preprocess called by a caller on a line of its own.   *)

\* The parsers are constructed; the caller holds a line.
InitPreprocess ==
    /\ global_group = "runtime"
    /\ filepath \in [Parsers -> UNION {FilePaths[p] : p \in Parsers}]
    /\ \A p \in Parsers : filepath[p] \in FilePaths[p]
    /\ appname = [p \in Parsers |-> AppNames[p]]
    /\ gemspec = [p \in Parsers |-> EndsWith(filepath[p], "gemspec")]
    /\ contents = [p \in Parsers |-> readlines(filepath[p])]
    /\ dependencies = [p \in Parsers |-> EmptyDependencies]
    /\ stack = <<>>
    /\ \E line \in Lines(MaxLen) : cur = Iteration(None, "preprocess", line)
    /\ exc = None
    /\ returned = {}
    /\ calls = 0

\* line = GemfileParser.preprocess(line)
Preprocess ==
    /\ Idle
    /\ cur.fn = "preprocess"
    /\ calls' = calls + 1
    /\ cur' = [cur EXCEPT !.line = preprocess(@)]
    /\ exc' = None
    /\ UNCHANGED <<global_group, object, dependencies, stack, returned>>

NextPreprocess == Preprocess

SpecPreprocess == InitPreprocess /\ [][NextPreprocess]_vars

-----------------------------------------------------------------------------
(* Properties.                                                             *)

\* The last record of a sequence, a fresh Dependency for the empty one.
LastOf(q) == IF q = <<>> THEN Dependency ELSE q[Len(q)]

\* The call made from outside is parse_gemfile and its loop has just done
\* the iteration recorded in cur.
AtGemfileLine ==
    /\ Len(stack) = 1
    /\ stack[1].fn = "parse_gemfile"
    /\ stack[1].i > 1
    /\ cur.fn = "parse_gemfile"

\* The lines of the file before the one just done.
Before == SubSeq(stack[1].contents, 1, stack[1].i - 2)

NoneOfKind(lines, kinds) ==
    \A j \in 1..Len(lines) : Kind(preprocess(lines[j])) \notin kinds

\* A gem line just filed that carries no per-line group attribute.
PlainGemLine ==
    /\ AtGemfileLine
    /\ cur.built
    /\ Capture(gemfile_regexes.group, cur.line) = None

\* C1: in every parse of a Gemfile, whatever was parsed before in the
\* process, a gem line without a per-line group attribute that no group
\* line and no gemspec directive of the file precedes is filed under
\* runtime.
C1_DefaultGroupIsRuntime ==
    (PlainGemLine /\ NoneOfKind(Before, {"group", "gemspec"}))
        => /\ cur.dep.group = "runtime"
           /\ LastOf(dependencies[cur.self]["runtime"]) = cur.dep

\* The group block a line following the given lines is in, "" when it is in
\* none: a group line ending in do opens the block, every other line ending
\* in do (or do |...|) opens a nested block, a line starting with end
\* closes the innermost open block.  st is <<group, depth>>.
OpensBlock(line) ==
    \/ EndsWith(line, " do")
    \/ \E j \in 1..Len(line) : j + 4 <= Len(line) /\ SubSeq(line, j, j + 4) = " do |"

RECURSIVE Enclosing(_, _)
Enclosing(lines, st) ==
    IF lines = <<>> THEN st[1]
    ELSE LET line == preprocess(Head(lines))
             name == Capture(group_block_regex, line)
             st2 == IF st[2] = 0
                    THEN IF Kind(line) = "group" /\ name # None
                         THEN <<name, 1>> ELSE st
                    ELSE IF Kind(line) = "end"
                         THEN IF st[2] = 1 THEN <<"", 0>> ELSE <<st[1], st[2] - 1>>
                         ELSE IF OpensBlock(line) THEN <<st[1], st[2] + 1>> ELSE st
         IN  Enclosing(Tail(lines), st2)

\* C2: a gem line without a per-line group attribute between a group line
\* and the matching end is filed under the name of the group, whatever
\* blocks and end lines lie between; the gem lines after the matching end
\* are filed under runtime.
C2_GroupBlockUntilMatchingEnd ==
    (PlainGemLine /\ NoneOfKind(Before, {"gemspec"})
                  /\ ~NoneOfKind(Before, {"group"}))
        => LET G == Enclosing(Before, <<"", 0>>)
           IN  cur.dep.group = IF G = "" THEN "runtime" ELSE G

PredefinedKeys == {"development", "runtime", "test", "production", "metrics"}

\* C3: the result collection of every parser holds the five predefined
\* keys at all times; when the first call made is a parse that read no
\* line (no loop iteration was done) and has returned, the collection
\* returned maps each of the five keys to the empty sequence and has no
\* other key.
C3_PredefinedKeysPresent ==
    /\ \A p \in Parsers : PredefinedKeys \subseteq DOMAIN dependencies[p]
    /\ (calls = 1 /\ cur.fn = None)
          => \A p \in returned :
                /\ DOMAIN dependencies[p] = PredefinedKeys
                /\ \A k \in PredefinedKeys : dependencies[p][k] = <<>>

\* The first call was the parse of a file without lines and has returned.
C3_Witness ==
    /\ calls = 1
    /\ cur.fn = None
    /\ \E p \in returned : contents[p] = <<>>

\* C4: the gemspec line spec.add_development_dependency "rspec", "~> 3.0"
\* yields a Dependency named rspec with the requirement sequence ["~> 3.0"].
C4_GemspecNameAndRequirement ==
    (cur.fn = "parse_gemspec"
        /\ cur.line = "spec.add_development_dependency \"rspec\", \"~> 3.0\"")
        => /\ cur.built
           /\ cur.dep.name = "rspec"
           /\ cur.dep.requirement = <<"~> 3.0">>

\* One record of group g is appended to the sequence under key g of the
\* collection of self (a new sequence if the key is absent); nothing else
\* changes in any collection.
FiledOnce(self, g) ==
    LET old == dependencies[self]
        new == dependencies'[self]
        was == IF g \in DOMAIN old THEN old[g] ELSE <<>>
    IN  /\ DOMAIN new = DOMAIN old \cup {g}
        /\ \A k \in DOMAIN old \ {g} : new[k] = old[k]
        /\ Len(new[g]) = Len(was) + 1
        /\ SubSeq(new[g], 1, Len(was)) = was
        /\ new[g][Len(new[g])].group = g
        /\ \A q \in Parsers \ {self} : dependencies'[q] = dependencies[q]

\* A step of the loop of parse_gemspec: a line matching neither directive
\* adds no record, a directive line files one record under the group of
\* its directive or, when override is set and the remainder of the line
\* carries a group attribute, under that attribute.
GemspecLineFiles(override) ==
    InLoop("parse_gemspec") =>
        LET dvt == Capture(add_dvtdep_regex, Line)
            run == Capture(add_rundep_regex, Line)
            rest == IF dvt # None THEN dvt ELSE run
            attr == Capture(gemfile_regexes.group, rest)
            g == IF override /\ attr # None THEN attr
                 ELSE IF dvt # None THEN "development" ELSE "runtime"
        IN  IF dvt = None /\ run = None
            THEN dependencies' = dependencies
            ELSE FiledOnce(Top.self, g)

\* C5 as claimed: in the gemspec dialect a line matching the
\* add-development directive files its record under development, a line
\* matching only the add-runtime directive under runtime, whatever the
\* rest of the line holds; other lines add no record.
C5_DirectiveDecidesGroup == [][GemspecLineFiles(FALSE)]_vars

\* C5 as amended: the record is filed under the group of the directive
\* unless the remainder of the line carries a per-line group attribute,
\* and then under that attribute; other lines add no record.
C5_DirectiveOrAttributeDecidesGroup == [][GemspecLineFiles(TRUE)]_vars

\* An add-development line with a group attribute has been filed, and an
\* add-runtime line was filed while the Group State was development.
C5_Witness ==
    /\ cur.fn = "parse_gemspec"
    /\ cur.built
    /\ cur.line = "spec.add_runtime_dependency \"rake\""
    /\ cur.dep.group = "runtime"
    /\ dependencies[cur.self]["development"] # <<>>
    /\ ":debug" \in DOMAIN dependencies[cur.self]

\* The gemspec files in the directory of the file a parser was made on.
SiblingGemspecs(self) ==
    {f \in DOMAIN Files : /\ dirname(f) = dirname(Resolve(filepath[self]))
                          /\ EndsWith(f, ".gemspec")
                          /\ ~StartsWith(basename(f), ".")}

AtGemspecDirective == InLoop("parse_gemfile") /\ Kind(Line) = "gemspec"

\* C6: at a gemspec line, when the directory of the Gemfile holds exactly
\* one gemspec file, parse_gemspec is started on the lines of that file for
\* the same parser (so for the same collection), whatever form the path of
\* the Gemfile has.
C6_SiblingGemspecIncluded ==
    [][(AtGemspecDirective /\ Cardinality(SiblingGemspecs(Top.self)) = 1)
          => \E f \in SiblingGemspecs(Top.self) :
                stack' = Append([stack EXCEPT ![Len(stack)].i = @ + 1],
                                [self |-> Top.self, fn |-> "parse_gemspec",
                                 contents |-> Files[f], i |-> 1])]_vars

\* C7: at a gemspec line, when the directory holds no gemspec file or more
\* than one, nothing is raised, the collections and the Group State stay
\* as they are and the loop goes on with the next line.
C7_UnresolvedGemspecSkipped ==
    [][(AtGemspecDirective /\ Cardinality(SiblingGemspecs(Top.self)) # 1)
          => /\ dependencies' = dependencies
             /\ global_group' = global_group
             /\ exc' = exc
             /\ stack' = [stack EXCEPT ![Len(stack)].i = @ + 1]]_vars

\* The gem line after a gemspec directive that found several gemspec files
\* has been filed.
C7_Witness ==
    /\ AtGemfileLine
    /\ cur.built
    /\ exc = None
    /\ Before # <<>>
    /\ Kind(preprocess(Before[Len(Before)])) = "gemspec"
    /\ Cardinality(SiblingGemspecs(cur.self)) > 1

\* C8: a collection that was returned never changes again, and every
\* parse called from outside starts on a collection of the five empty
\* predefined keys.
C8_ReturnedCollectionFrozen ==
    [][/\ \A p \in returned : dependencies'[p] = dependencies[p]
       /\ (stack = <<>> /\ stack' # <<>>)
             => dependencies[stack'[1].self] = EmptyDependencies]_vars

\* C9: every line classified as a dependency declaration (a Gemfile line
\* starting with "gem ", a gemspec line matching a directive) adds exactly
\* one record, at the end of the sequence keyed by its per-line group
\* attribute if the line has one and by the current Group State otherwise;
\* the key is created if absent and no other sequence changes.
C9_OneRecordPerDeclaration ==
    [][/\ (InLoop("parse_gemfile") /\ Kind(Line) = "gem")
             => LET attr == Capture(gemfile_regexes.group, Line)
                IN  FiledOnce(Top.self, IF attr # None THEN attr ELSE global_group)
       /\ (InLoop("parse_gemspec")
             /\ (Capture(add_dvtdep_regex, Line) # None
                   \/ Capture(add_rundep_regex, Line) # None))
             => LET dvt == Capture(add_dvtdep_regex, Line)
                    rest == IF dvt # None THEN dvt
                            ELSE Capture(add_rundep_regex, Line)
                    attr == Capture(gemfile_regexes.group, rest)
                IN  FiledOnce(Top.self, IF attr # None THEN attr ELSE global_group')]_vars

\* A gem line on which no pattern matches has been filed under a key that
\* did not exist, as the second record of the parse.
C9_Witness ==
    /\ AtGemfileLine
    /\ cur.built
    /\ cur.line = "gem foo"
    /\ cur.dep.name = None
    /\ cur.dep.requirement = <<>>
    /\ dependencies[cur.self]["assets"] = <<cur.dep>>
    /\ ":ci" \in DOMAIN dependencies[cur.self]

\* Gem names and the version constraint that follows them.
Examples == {<<"foo", ">= 1.0">>, <<"rails", "4.2.0">>}

GemLine(e) == "gem \"" \o e[1] \o "\", \"" \o e[2] \o "\""

\* C10: the Gemfile line gem "foo", ">= 1.0" yields a Dependency named foo
\* with the requirement sequence [">= 1.0"] (and likewise for the other
\* example): the name is the text inside the first quoted string after gem,
\* the requirement the constraint clause after the quoted name.
C10_NameAndRequirement ==
    \A e \in Examples :
        (cur.built /\ cur.fn \in {"parse_gemfile", "parse_line"}
                   /\ cur.line = GemLine(e))
            => /\ cur.dep.name = e[1]
               /\ cur.dep.requirement = <<e[2]>>

C10_Witness ==
    /\ cur.built
    /\ cur.fn = "parse_gemfile"
    /\ cur.line = "gem \"foo\", \">= 1.0\""
    /\ cur.dep.name = "foo"
    /\ LastOf(dependencies[cur.self][cur.dep.group]) = cur.dep

\* C11: the Gemfile line gem "foo", ">= 1.0", "< 2.0" yields a Dependency
\* whose requirement sequence holds one entry per constraint clause, in the
\* order of the line: [">= 1.0", "< 2.0"].
C11_EveryClauseKept ==
    (cur.built /\ cur.fn = "parse_gemfile"
               /\ cur.line = "gem \"foo\", \">= 1.0\", \"< 2.0\"")
        => cur.dep.requirement = <<">= 1.0", "< 2.0">>

\* C12: the Gemfile line gem "bar", path: "../bar" yields a Dependency
\* named bar whose path is ../bar, without the quote characters around it,
\* and whose requirement sequence is empty.
C12_PathWithoutQuotes ==
    (cur.built /\ cur.fn = "parse_gemfile"
               /\ cur.line = "gem \"bar\", path: \"../bar\"")
        => /\ cur.dep.name = "bar"
           /\ cur.dep.path = "../bar"
           /\ cur.dep.requirement = <<>>

\* C13: preprocess returns, for every line, a string that holds no "#" and
\* neither starts nor ends with a whitespace character, and applying
\* preprocess to a line it has returned gives the same line again.
C13_PreprocessIdempotent ==
    [][(cur.fn = "preprocess" /\ calls' = calls + 1)
          => /\ IndicesOf(cur'.line, "#") = {}
             /\ \/ cur'.line = ""
                \/ /\ Char(cur'.line, 1) \notin Whitespace
                   /\ Char(cur'.line, Len(cur'.line)) \notin Whitespace
             /\ calls >= 1 => cur'.line = cur.line]_vars

\* preprocess has been applied twice and what is left is a line with a
\* whitespace character inside.
C13_Witness ==
    /\ cur.fn = "preprocess"
    /\ calls = 2
    /\ cur.line = "a a"

\* The lines of the gemspec file a gemspec directive of the Gemfile of self
\* includes, none when the directive resolves to no file.
IncludedLines(self) ==
    LET gemfiledir == dirname(filepath[self])
        gemspec_list == glob(join(gemfiledir, "*.gemspec"))
        path == join(gemfiledir, CHOOSE f \in gemspec_list : TRUE)
    IN  IF Resolved(gemspec_list) /\ Exists(path) THEN readlines(path) ELSE <<>>

\* What a gemspec line hands to parse_line, None for a line without
\* directive.
Remainder(line) ==
    LET dvt == Capture(add_dvtdep_regex, line)
    IN  IF dvt # None THEN dvt ELSE Capture(add_rundep_regex, line)

\* The declarations of the given lines of a gemspec file, in line order.
RECURSIVE GemspecDecls(_)
GemspecDecls(lines) ==
    IF lines = <<>> THEN <<>>
    ELSE LET rest == Remainder(preprocess(Head(lines)))
         IN  (IF rest = None THEN <<>> ELSE <<rest>>) \o GemspecDecls(Tail(lines))

\* The declarations of the given lines of a Gemfile, in line order, those
\* of an included gemspec file at the place of the gemspec directive.
RECURSIVE GemfileDecls(_, _)
GemfileDecls(self, lines) ==
    IF lines = <<>> THEN <<>>
    ELSE LET line == preprocess(Head(lines))
             here == IF Kind(line) = "gem" THEN <<line>>
                     ELSE IF Kind(line) = "gemspec"
                          THEN GemspecDecls(IncludedLines(self))
                          ELSE <<>>
         IN  here \o GemfileDecls(self, Tail(lines))

\* The declarations of the lines the active parse has done so far.
Declared ==
    LET f == stack[1]
    IN  IF f.fn = "parse_gemspec"
        THEN GemspecDecls(SubSeq(f.contents, 1, f.i - 1))
        ELSE IF Len(stack) = 1
        THEN GemfileDecls(f.self, SubSeq(f.contents, 1, f.i - 1))
        ELSE GemfileDecls(f.self, SubSeq(f.contents, 1, f.i - 2))
                \o GemspecDecls(SubSeq(stack[2].contents, 1, stack[2].i - 1))

\* C14: during the first parse made (every sequence was empty when it
\* started), every record of a sequence was built from a declaration of
\* the lines done so far, and of two records of the same sequence the
\* earlier one was built from an earlier declaration, the declarations of
\* an included gemspec file standing at the place of the gemspec directive.
C14_FileLineOrder ==
    (calls = 1 /\ stack # <<>>)
        => LET self == stack[1].self
               deps == dependencies[self]
               D == Declared
               From(rec, k) == rec = BuildDep(D[k], rec.group, appname[self])
           IN  \A g \in DOMAIN deps :
                  \A a \in 1..Len(deps[g]) :
                     /\ deps[g][a].group = g
                     /\ \E ka \in 1..Len(D) : From(deps[g][a], ka)
                     /\ \A b \in (a + 1)..Len(deps[g]) :
                           \E ka, kb \in 1..Len(D) :
                              /\ ka < kb
                              /\ From(deps[g][a], ka)
                              /\ From(deps[g][b], kb)

\* In the first parse made, a gem line of the Gemfile has been filed behind
\* a record of the gemspec file included before it.
C14_Witness ==
    /\ calls = 1
    /\ AtGemfileLine
    /\ cur.built
    /\ cur.line = "gem \"bar\", path: \"../bar\""
    /\ Len(dependencies[cur.self]["development"]) = 2
    /\ dependencies[cur.self]["development"][2] = cur.dep
    /\ dependencies[cur.self]["development"][1].requirement # cur.dep.requirement
          \/ dependencies[cur.self]["development"][1].name # cur.dep.name

\* A gemspec directive of the Gemfile of self resolves to one file that can
\* be read.
Includes(self) ==
    LET gemfiledir == dirname(filepath[self])
        gemspec_list == glob(join(gemfiledir, "*.gemspec"))
    IN  /\ Cardinality(gemspec_list) = 1
        /\ Exists(join(gemfiledir, CHOOSE f \in gemspec_list : TRUE))

\* The group of the last dependency directive of the lines of a gemspec
\* file, None when they hold no directive.
RECURSIVE LastDirective(_)
LastDirective(lines) ==
    IF lines = <<>> THEN None
    ELSE LET line == preprocess(lines[Len(lines)])
         IN  IF Capture(add_dvtdep_regex, line) # None THEN "development"
             ELSE IF Capture(add_rundep_regex, line) # None THEN "runtime"
             ELSE LastDirective(SubSeq(lines, 1, Len(lines) - 1))

\* The positions of the gemspec directives among the given lines.
GemspecLines(lines) ==
    {j \in 1..Len(lines) : Kind(preprocess(lines[j])) = "gemspec"}

\* The Group State after the given lines of the Gemfile being parsed, as
\* far as they decide it: runtime after a line starting with end, the block
\* name after a group line from which one is extracted, runtime when the
\* first call made starts; None when a gemspec directive or an earlier call
\* decides it.
RECURSIVE Decided(_)
Decided(lines) ==
    IF lines = <<>> THEN (IF calls = 1 THEN "runtime" ELSE None)
    ELSE LET line == preprocess(lines[Len(lines)])
             name == Capture(group_block_regex, line)
         IN  IF Kind(line) = "end" THEN "runtime"
             ELSE IF Kind(line) = "group" /\ name # None THEN name
             ELSE IF Kind(line) = "gemspec" THEN None
             ELSE Decided(SubSeq(lines, 1, Len(lines) - 1))

\* While the lines of an included gemspec file are done, the loop over the
\* Gemfile stands behind its gemspec directive, and the iteration done last
\* is one of the gemspec file or, before its first line, the directive.
GemspecRunsToCompletion ==
    Len(stack) = 2
        => /\ stack[1].fn = "parse_gemfile"
           /\ stack[1].i > 1
           /\ Kind(preprocess(stack[1].contents[stack[1].i - 1])) = "gemspec"
           /\ stack[2].fn = "parse_gemspec"
           /\ stack[2].self = stack[1].self
           /\ IF stack[2].i = 1
              THEN cur.fn = "parse_gemfile" /\ Kind(cur.line) = "gemspec"
              ELSE cur.fn = "parse_gemspec"
                      /\ cur.line = preprocess(stack[2].contents[stack[2].i - 1])

\* A gem line without a per-line group attribute just filed behind a
\* resolved gemspec directive, with no line starting with group or end in
\* between, has the group of the last dependency directive of the gemspec
\* file, or the Group State in force before the gemspec directive when the
\* gemspec file holds no dependency directive.
FiledBehindGemspec ==
    (PlainGemLine /\ Includes(cur.self) /\ GemspecLines(Before) # {})
        => LET j == MaxOf(GemspecLines(Before))
               between == SubSeq(Before, j + 1, Len(Before))
               last == LastDirective(IncludedLines(cur.self))
               prior == Decided(SubSeq(Before, 1, j - 1))
           IN  NoneOfKind(between, {"group", "end"})
                  => /\ last # None => cur.dep.group = last
                     /\ (last = None /\ prior # None) => cur.dep.group = prior

\* C15: a gemspec inclusion runs to completion before the parse of the
\* Gemfile goes on, and a later gem line without a per-line group attribute
\* (no line starting with group or end in between) is filed under
\* development if the last dependency directive of the gemspec file is
\* add-development, under runtime if it is add-runtime, and under the Group
\* State in force before the gemspec directive if the gemspec file holds no
\* dependency directive, also when the gemspec directive is in a group
\* block.
C15_GemspecLeavesGroupState ==
    /\ Len(stack) <= 2
    /\ GemspecRunsToCompletion
    /\ FiledBehindGemspec

\* A gem line has been filed under development behind a gemspec directive
\* that sits in a group block and whose gemspec file ends with an
\* add-development directive.
C15_Witness ==
    /\ PlainGemLine
    /\ Includes(cur.self)
    /\ cur.line = "gem foo"
    /\ Before # <<>>
    /\ preprocess(Before[Len(Before)]) = "gemspec"
    /\ LastDirective(IncludedLines(cur.self)) = "development"
    /\ cur.dep.group = "development"

\* The Group State after a step of the loop of parse_gemfile on the line it
\* is at.
GemfileLineSets ==
    InLoop("parse_gemfile")
        => LET name == Capture(group_block_regex, Line)
               attr == Capture(gemfile_regexes.group, Line)
           IN  /\ global_group' =
                     IF Kind(Line) = "group" /\ name # None THEN name
                     ELSE IF Kind(Line) = "end" THEN "runtime"
                     ELSE global_group
               /\ Kind(Line) = "gem"
                     => /\ cur'.built
                        /\ cur'.dep.group = IF attr # None THEN attr ELSE global_group

\* C16: a step on a line of a Gemfile sets the Group State to the block
\* name on a line starting with group from which one is extracted and to
\* runtime on a line starting with end, and leaves it unchanged on every
\* other line (empty, source, group without extractable name, gemspec,
\* gem, unrecognized); a gem line files its Dependency under its per-line
\* group attribute, or under the Group State, without changing the Group
\* State.  The only other steps that change the Group State are those on
\* the lines of a gemspec file; calls and returns leave it unchanged.
C16_GroupStateFrame ==
    [][/\ GemfileLineSets
       /\ global_group' # global_group
             => stack # <<>> /\ Top.i <= Len(Top.contents)]_vars

\* A gem line without group attribute has been filed under the name of the
\* group block it is in, behind a gem line with a group attribute that was
\* filed under the attribute and behind a group line from which no name
\* is extracted.
C16_Witness ==
    /\ PlainGemLine
    /\ cur.line = "gem \"minitest\""
    /\ cur.dep.group = "docs"
    /\ global_group = "docs"
    /\ Len(Before) >= 2
    /\ Capture(gemfile_regexes.group, preprocess(Before[Len(Before)])) = ":debug"
    /\ ":debug" \in DOMAIN dependencies[cur.self]
    /\ Kind(preprocess(Before[Len(Before) - 1])) = "group"
    /\ Capture(group_block_regex, preprocess(Before[Len(Before) - 1])) = None

====
